---- MODULE Spec2Model ----
(***************************************************************************)
(* TalentScout hiring assistant (src/main.py): the Streamlit session state *)
(* machine of main() and the HiringAssistant helpers it calls.             *)
(*                                                                         *)
(* Text is modelled as a sequence of one-character strings, so that        *)
(* str.strip, str.lower, str.split and the regular expressions are         *)
(* computed character by character as Python computes them.                *)
(***************************************************************************)
EXTENDS Integers, Sequences, FiniteSets, TLC

VARIABLES
    stage,                      \* st.session_state.stage
    chat_history,               \* st.session_state.chat_history
    candidate_data,             \* st.session_state.candidate_data
    current_question,           \* st.session_state.current_question
    questions,                  \* st.session_state.questions
    current_question_retries,   \* st.session_state.current_question_retries
    saveCalls,                  \* calls of save_candidate_data since the session started
    evals,                      \* history: the evaluate_answer calls of this session
    turn,                       \* history: the last widget event main() handled
    analytics_file,             \* data/analytics/interview_analytics.json
    saving                      \* the save_candidate_data calls under way

vars == <<stage, chat_history, candidate_data, current_question, questions,
          current_question_retries, saveCalls, evals, turn, analytics_file, saving>>

session == <<stage, chat_history, candidate_data, current_question, questions,
             current_question_retries>>

\* the aggregate file and the calls that update it
aggregate == <<analytics_file, saving>>

(***************************************************************************)
(* Python string primitives                                                *)
(***************************************************************************)
None == "None"

Whitespace == {" ", "\t", "\n"}

UpperLetters == <<"A","B","C","D","E","F","G","H","I","J","K","L","M",
                  "N","O","P","Q","R","S","T","U","V","W","X","Y","Z">>

LowerLetters == <<"a","b","c","d","e","f","g","h","i","j","k","l","m",
                  "n","o","p","q","r","s","t","u","v","w","x","y","z">>

Range(f) == {f[i] : i \in DOMAIN f}

Digits == {"0","1","2","3","4","5","6","7","8","9"}

\* str.lower() on one character
LowerChar(c) ==
    IF \E i \in DOMAIN UpperLetters : UpperLetters[i] = c
    THEN LowerLetters[CHOOSE i \in DOMAIN UpperLetters : UpperLetters[i] = c]
    ELSE c

\* str.lower()
lower(s) == [i \in DOMAIN s |-> LowerChar(s[i])]

RECURSIVE lstrip(_)
lstrip(s) ==
    IF s # <<>> /\ Head(s) \in Whitespace THEN lstrip(Tail(s)) ELSE s

RECURSIVE rstrip(_)
rstrip(s) ==
    IF s # <<>> /\ s[Len(s)] \in Whitespace
    THEN rstrip(SubSeq(s, 1, Len(s) - 1))
    ELSE s

\* str.strip()
strip(s) == rstrip(lstrip(s))

\* str.split() with no separator: the maximal runs of non-whitespace
RECURSIVE split(_)
split(s) ==
    LET t == lstrip(s)
        n == IF \E i \in DOMAIN t : t[i] \in Whitespace
             THEN (CHOOSE i \in DOMAIN t :
                      /\ t[i] \in Whitespace
                      /\ \A j \in 1..(i - 1) : t[j] \notin Whitespace) - 1
             ELSE Len(t)
    IN  IF t = <<>> THEN <<>>
        ELSE <<SubSeq(t, 1, n)>> \o split(SubSeq(t, n + 1, Len(t)))

\* tech_stack.split(',')[0]
BeforeComma(s) ==
    IF \E i \in DOMAIN s : s[i] = ","
    THEN SubSeq(s, 1, (CHOOSE i \in DOMAIN s :
                          s[i] = "," /\ \A j \in 1..(i - 1) : s[j] # ",") - 1)
    ELSE s

(***************************************************************************)
(* HiringAssistant: field validators                                       *)
(***************************************************************************)
Letters == Range(UpperLetters) \cup Range(LowerLetters)

EmailLocalChars == Letters \cup Digits \cup {".", "_", "%", "+", "-"}

EmailDomainChars == Letters \cup Digits \cup {".", "-"}

\* re.match(r'^[a-zA-Z0-9._%+-]+@[a-zA-Z0-9.-]+\.[a-zA-Z]{2,}$', email)
validate_email(email) ==
    \E i, j \in DOMAIN email :
        /\ 1 < i /\ i + 1 < j /\ j + 2 <= Len(email)
        /\ email[i] = "@"
        /\ email[j] = "."
        /\ \A k \in 1..(i - 1) : email[k] \in EmailLocalChars
        /\ \A k \in (i + 1)..(j - 1) : email[k] \in EmailDomainChars
        /\ \A k \in (j + 1)..Len(email) : email[k] \in Letters

\* re.sub(r'[^\d\+]', '', phone)
cleaned_phone(phone) == SelectSeq(phone, LAMBDA c : c \in Digits \cup {"+"})

validate_phone(phone) ==
    Len(cleaned_phone(phone)) >= 10 /\ Len(cleaned_phone(phone)) <= 15

(***************************************************************************)
(* HiringAssistant.validate_user_input                                     *)
(***************************************************************************)
MsgBlank == "I didn't receive any input from you. Could you please provide an answer?"

MsgTooShort == "Your response seems very brief. Could you please provide more details?"

MsgGibberish == "I'm having trouble understanding your response. Could you please rephrase it?"

MsgInsufficient == "Your technical answer seems quite brief. Could you provide more detail or explanation?"

\* mutant: the word count is tested before the repeated characters
validate_user_input_words_first(user_input) ==
    LET input_length == Len(strip(user_input))
        word_count == Len(split(strip(user_input)))
    IN  IF input_length = 0
        THEN [valid |-> FALSE, reason |-> "blank", message |-> MsgBlank]
        ELSE IF input_length < 3
        THEN [valid |-> FALSE, reason |-> "too_short", message |-> MsgTooShort]
        ELSE IF word_count < 3
        THEN [valid |-> FALSE, reason |-> "insufficient_detail",
              message |-> MsgInsufficient]
        ELSE IF Cardinality(Range(lower(user_input))) < 3 /\ input_length > 5
        THEN [valid |-> FALSE, reason |-> "gibberish", message |-> MsgGibberish]
        ELSE [valid |-> TRUE, reason |-> "good", message |-> ""]

\* mutant: only a single character is too short
validate_user_input_shorter(user_input) ==
    LET input_length == Len(strip(user_input))
        word_count == Len(split(strip(user_input)))
    IN  IF input_length = 0
        THEN [valid |-> FALSE, reason |-> "blank", message |-> MsgBlank]
        ELSE IF input_length < 2
        THEN [valid |-> FALSE, reason |-> "too_short", message |-> MsgTooShort]
        ELSE IF Cardinality(Range(lower(user_input))) < 3 /\ input_length > 5
        THEN [valid |-> FALSE, reason |-> "gibberish", message |-> MsgGibberish]
        ELSE IF word_count < 3
        THEN [valid |-> FALSE, reason |-> "insufficient_detail",
              message |-> MsgInsufficient]
        ELSE [valid |-> TRUE, reason |-> "good", message |-> ""]

validate_user_input(user_input) ==
    LET input_length == Len(strip(user_input))
        word_count == Len(split(strip(user_input)))
    IN  IF input_length = 0
        THEN [valid |-> FALSE, reason |-> "blank", message |-> MsgBlank]
        ELSE IF input_length < 3
        THEN [valid |-> FALSE, reason |-> "too_short", message |-> MsgTooShort]
        ELSE IF Cardinality(Range(lower(user_input))) < 3 /\ input_length > 5
        THEN [valid |-> FALSE, reason |-> "gibberish", message |-> MsgGibberish]
        ELSE IF word_count < 3
        THEN [valid |-> FALSE, reason |-> "insufficient_detail",
              message |-> MsgInsufficient]
        ELSE [valid |-> TRUE, reason |-> "good", message |-> ""]

(***************************************************************************)
(* The Groq service as main() sees it: the client may be missing           *)
(* (initialize_groq failed), a call may raise, or it returns a reply text, *)
(* modelled as the list of its stripped lines, each split into the label   *)
(* that line.startswith() tests and the rest of the line.                  *)
(***************************************************************************)
Line(tag, val) == [tag |-> tag, val |-> val]

NoClient == [client |-> FALSE, raises |-> FALSE, reply |-> <<>>]

CallRaises == [client |-> TRUE, raises |-> TRUE, reply |-> <<>>]

Replies(lines) == [client |-> TRUE, raises |-> FALSE, reply |-> lines]

\* str.upper() on the evaluation labels a reply may carry
upper_label(v) ==
    CASE v \in {"ADEQUATE", "adequate", "Adequate"} -> "ADEQUATE"
      [] v \in {"NEEDS_CLARIFICATION", "needs_clarification"} -> "NEEDS_CLARIFICATION"
      [] v \in {"IRRELEVANT", "irrelevant"} -> "IRRELEVANT"
      [] v \in {"MAYBE", "maybe"} -> "MAYBE"
      [] OTHER -> v

\* str.lower() on the difficulty labels a reply may carry
lower_label(v) ==
    CASE v \in {"Easy", "easy", "EASY"} -> "easy"
      [] v \in {"Medium", "medium", "MEDIUM"} -> "medium"
      [] v \in {"Hard", "hard", "HARD"} -> "hard"
      [] OTHER -> v

(***************************************************************************)
(* HiringAssistant.evaluate_answer.  The question, the tech stack and the  *)
(* language only fill the prompt; what the service does with the prompt is *)
(* the parameter svc.                                                      *)
(***************************************************************************)
MsgNoClient == "Please provide a more detailed answer."

MsgEvalError == "An error occurred while evaluating your answer. Please try again."

MsgGoodAnswer == "Good answer! Moving to the next question."

MsgMoreDetails == "Could you please provide more technical details or examples?"

MsgNotAddressed == "Your answer doesn't seem to address the question. Could you please try again?"

EvalResult(is_adequate, feedback, evaluation_type, called) ==
    [adequate |-> is_adequate, feedback |-> feedback, type |-> evaluation_type,
     service_called |-> called]

\* the for loop over evaluation_lines: the last line with the label wins
RECURSIVE LastLabelled(_, _, _)
LastLabelled(lines, tag, default) ==
    IF lines = <<>> THEN default
    ELSE IF lines[Len(lines)].tag = tag THEN lines[Len(lines)].val
    ELSE LastLabelled(SubSeq(lines, 1, Len(lines) - 1), tag, default)

default_feedback(evaluation_type) ==
    IF evaluation_type = "ADEQUATE" THEN MsgGoodAnswer
    ELSE IF evaluation_type = "NEEDS_CLARIFICATION" THEN MsgMoreDetails
    ELSE MsgNotAddressed

\* mutant: a reply without a known label counts as an adequate answer
parse_evaluation_lenient(lines) ==
    LET evaluation_type == upper_label(LastLabelled(lines, "EVALUATION:", ""))
        feedback_message == LastLabelled(lines, "FEEDBACK:", "")
        known == evaluation_type \in {"ADEQUATE", "NEEDS_CLARIFICATION", "IRRELEVANT"}
    IN  EvalResult(evaluation_type = "ADEQUATE" \/ ~known,
                   IF feedback_message = ""
                   THEN default_feedback(IF known THEN evaluation_type ELSE "ADEQUATE")
                   ELSE feedback_message,
                   IF known THEN evaluation_type ELSE "ADEQUATE", TRUE)

parse_evaluation(lines) ==
    LET evaluation_type == upper_label(LastLabelled(lines, "EVALUATION:", ""))
        feedback_message == LastLabelled(lines, "FEEDBACK:", "")
    IN  EvalResult(evaluation_type = "ADEQUATE",
                   IF feedback_message = ""
                   THEN default_feedback(evaluation_type)
                   ELSE feedback_message,
                   evaluation_type, TRUE)

\* mutant: without a client every answer is accepted
NoClientResult_accepts == EvalResult(TRUE, MsgGoodAnswer, "ADEQUATE", FALSE)

NoClientResult == EvalResult(FALSE, MsgNoClient, "ERROR", FALSE)

ValidationResult(answer) ==
    EvalResult(FALSE, validate_user_input(answer).message, "NEEDS_CLARIFICATION", FALSE)

\* mutant: the answer goes to the service without the validator's screening
evaluate_answer_without_validation(answer, svc) ==
    IF ~svc.client THEN NoClientResult
    ELSE IF svc.raises THEN EvalResult(FALSE, MsgEvalError, "ERROR", TRUE)
    ELSE parse_evaluation(svc.reply)

\* mutant: the service is called first, the validator screens afterwards
evaluate_answer_validates_after_call(answer, svc) ==
    IF ~svc.client THEN NoClientResult
    ELSE IF svc.raises THEN EvalResult(FALSE, MsgEvalError, "ERROR", TRUE)
    ELSE IF ~validate_user_input(answer).valid
    THEN [ValidationResult(answer) EXCEPT !.service_called = TRUE]
    ELSE parse_evaluation(svc.reply)

evaluate_answer(answer, svc) ==
    IF ~svc.client THEN NoClientResult
    ELSE IF ~validate_user_input(answer).valid THEN ValidationResult(answer)
    ELSE IF svc.raises THEN EvalResult(FALSE, MsgEvalError, "ERROR", TRUE)
    ELSE parse_evaluation(svc.reply)

(***************************************************************************)
(* HiringAssistant: question generation.  A question is a Python dict,     *)
(* modelled as a function whose domain is the set of its keys.             *)
(***************************************************************************)
EmptyDict == [k \in {} |-> None]

HasKey(d, k) == k \in DOMAIN d

\* d[k] = v on a dict
SetKey(d, k, v) == (k :> v) @@ d

Programming == <<"p","r","o","g","r","a","m","m","i","n","g">>

\* the f-string of fallback question n for the technology tech
FallbackText(n, tech) == [template |-> n, tech |-> tech]

get_fallback_questions(tech_stack) ==
    LET tech == IF tech_stack # <<>> THEN strip(BeforeComma(tech_stack))
                ELSE Programming
    IN  << [difficulty |-> "Easy",   question |-> FallbackText(1, tech)],
           [difficulty |-> "Easy",   question |-> FallbackText(2, tech)],
           [difficulty |-> "Medium", question |-> FallbackText(3, tech)],
           [difficulty |-> "Hard",   question |-> FallbackText(4, tech)] >>

\* the loop of parse_questions: acc is the list built so far, cur the dict
\* being filled
RECURSIVE ParseLines(_, _, _)
ParseLines(lines, acc, cur) ==
    IF lines = <<>>
    THEN IF cur # EmptyDict THEN Append(acc, cur) ELSE acc
    ELSE IF Head(lines).tag = "DIFFICULTY:"
    THEN ParseLines(Tail(lines),
                    IF cur # EmptyDict THEN Append(acc, cur) ELSE acc,
                    [difficulty |-> Head(lines).val])
    ELSE IF Head(lines).tag = "QUESTION:"
    THEN ParseLines(Tail(lines), acc, SetKey(cur, "question", Head(lines).val))
    ELSE ParseLines(Tail(lines), acc, cur)

\* questions[:4]
FirstFour(qs) == SubSeq(qs, 1, IF Len(qs) < 4 THEN Len(qs) ELSE 4)

parse_questions(response_lines) == FirstFour(ParseLines(response_lines, <<>>, EmptyDict))

RequiredOrder == <<"easy", "easy", "medium", "hard">>

\* mutant: the parsed list is returned without the count check
generate_without_count_check(tech_stack, svc) ==
    IF ~svc.client \/ svc.raises THEN get_fallback_questions(tech_stack)
    ELSE LET parsed == parse_questions(svc.reply)
         IN  IF \E i \in DOMAIN parsed : ~HasKey(parsed[i], "difficulty")
             THEN get_fallback_questions(tech_stack)
             ELSE IF Len(parsed) = 4
                     /\ [i \in DOMAIN parsed |-> lower_label(parsed[i].difficulty)]
                           # RequiredOrder
             THEN get_fallback_questions(tech_stack)
             ELSE parsed

\* mutant: a parsed list of 4 is returned whatever its difficulty order
generate_without_order_check(tech_stack, svc) ==
    IF ~svc.client \/ svc.raises THEN get_fallback_questions(tech_stack)
    ELSE LET parsed == parse_questions(svc.reply)
         IN  IF Len(parsed) # 4 THEN get_fallback_questions(tech_stack)
             ELSE IF \E i \in DOMAIN parsed : ~HasKey(parsed[i], "difficulty")
             THEN get_fallback_questions(tech_stack)
             ELSE parsed

generate_technical_questions(tech_stack, svc) ==
    IF ~svc.client \/ svc.raises THEN get_fallback_questions(tech_stack)
    ELSE LET parsed == parse_questions(svc.reply)
         IN  IF Len(parsed) # 4 THEN get_fallback_questions(tech_stack)
             \* q['difficulty'] of a dict without that key raises KeyError,
             \* which the except clause turns into the fallback
             ELSE IF \E i \in DOMAIN parsed : ~HasKey(parsed[i], "difficulty")
             THEN get_fallback_questions(tech_stack)
             ELSE IF [i \in DOMAIN parsed |-> lower_label(parsed[i].difficulty)]
                       # RequiredOrder
             THEN get_fallback_questions(tech_stack)
             ELSE parsed

(***************************************************************************)
(* main(): the session.  s is the session state as a record of the         *)
(* st.session_state keys; the timestamps of the chat messages are left     *)
(* out (datetime.now() decides nothing).                                   *)
(***************************************************************************)
NumQuestions == 4

RetryLimit == 2

Terminal == {"completed", "ended"}

ExitKeywords == {<<"e","n","d">>, <<"q","u","i","t">>, <<"s","t","o","p">>, <<"e","x","i","t">>}

MsgConsent == "Thank you for your consent! Let's start by collecting some basic information about you."

MsgHello == "Hello {full_name}! Thank you for providing your information for the {position} position. ... Let's begin the technical interview!"

MsgEndedAtRequest == "Thank you for your time! The interview has been ended at your request. Someone from our team will contact you regarding the next steps."

MsgEnded == "Thank you for your time! The interview has been ended. Someone from our team will contact you regarding the next steps."

MsgMovingOn == "Thank you for your response. Let's proceed to the next question."

\* an assistant message; its fixed text is a one-piece text, so that user
\* and assistant messages are both sequences of strings
Bot(m) == [type |-> "bot", message |-> <<m>>]

User(text) == [type |-> "user", message |-> text]

Session == [stage |-> stage, chat_history |-> chat_history,
            candidate_data |-> candidate_data,
            current_question |-> current_question, questions |-> questions,
            current_question_retries |-> current_question_retries]

\* the state main() creates when st.session_state has none of its keys
NewSession == [stage |-> "consent", chat_history |-> <<>>,
               candidate_data |-> EmptyDict, current_question |-> 0,
               questions |-> <<>>, current_question_retries |-> 0]

\* mutant: a keyword anywhere in the text counts as the exit command
is_exit_command_anywhere(user_input) ==
    \E i, j \in DOMAIN user_input :
        i <= j /\ SubSeq(lower(user_input), i, j) \in ExitKeywords

\* user_input.strip().lower() in ['end', 'quit', 'stop', 'exit']
is_exit_command(user_input) == lower(strip(user_input)) \in ExitKeywords

\* mutant: only the empty text counts as blank
is_blank_only_if_empty(user_input) == user_input = <<>>

\* not user_input.strip()
is_blank(user_input) == strip(user_input) = <<>>

\* the else branch of the submit handler: the input goes to evaluate_answer
is_evaluated(user_input) == ~is_exit_command(user_input) /\ ~is_blank(user_input)

\* questions[current_question]['final_evaluation_type'] = tag
tag_current_question(s, tag) ==
    [s EXCEPT !.questions[s.current_question + 1] =
                  SetKey(@, "final_evaluation_type", tag)]

on_exit_command(s, user_input) ==
    [s EXCEPT !.stage = "ended",
              !.chat_history = @ \o <<User(user_input), Bot(MsgEndedAtRequest)>>]

\* mutant: the retry counter is not reset on an adequate answer
on_adequate_keeps_retries(s, r) ==
    [tag_current_question(s, r.type) EXCEPT
        !.chat_history = Append(@, Bot(r.feedback)),
        !.current_question = @ + 1]

on_adequate(s, r) ==
    [tag_current_question(s, r.type) EXCEPT
        !.chat_history = Append(@, Bot(r.feedback)),
        !.current_question = @ + 1,
        !.current_question_retries = 0]

\* mutant: the force-advance comes one attempt late
on_not_adequate_three_tries(s, r) ==
    IF s.current_question_retries + 1 <= RetryLimit
    THEN [s EXCEPT !.current_question_retries = @ + 1,
                   !.chat_history = Append(@, Bot(r.feedback))]
    ELSE [tag_current_question(s, "FAILED_ATTEMPTS") EXCEPT
             !.chat_history = Append(@, Bot(MsgMovingOn)),
             !.current_question = @ + 1,
             !.current_question_retries = 0]

\* mutant: the force-advance leaves the incremented retry counter in place
on_not_adequate_keeps_retries(s, r) ==
    IF s.current_question_retries + 1 < RetryLimit
    THEN [s EXCEPT !.current_question_retries = @ + 1,
                   !.chat_history = Append(@, Bot(r.feedback))]
    ELSE [tag_current_question(s, "FAILED_ATTEMPTS") EXCEPT
             !.chat_history = Append(@, Bot(MsgMovingOn)),
             !.current_question = @ + 1,
             !.current_question_retries = @ + 1]

\* mutant: a non-adequate answer never moves to the next question
on_not_adequate_never_advances(s, r) ==
    [s EXCEPT !.current_question_retries = @ + 1,
              !.chat_history = Append(@, Bot(r.feedback))]

\* mutant: the forced advance records the evaluator's classification
on_not_adequate_tags_classification(s, r) ==
    IF s.current_question_retries + 1 < RetryLimit
    THEN [s EXCEPT !.current_question_retries = @ + 1,
                   !.chat_history = Append(@, Bot(r.feedback))]
    ELSE [tag_current_question(s, r.type) EXCEPT
             !.chat_history = Append(@, Bot(MsgMovingOn)),
             !.current_question = @ + 1,
             !.current_question_retries = 0]

on_not_adequate(s, r) ==
    IF s.current_question_retries + 1 < RetryLimit
    THEN [s EXCEPT !.current_question_retries = @ + 1,
                   !.chat_history = Append(@, Bot(r.feedback))]
    ELSE [tag_current_question(s, "FAILED_ATTEMPTS") EXCEPT
             !.chat_history = Append(@, Bot(MsgMovingOn)),
             !.current_question = @ + 1,
             !.current_question_retries = 0]

on_evaluated(s, r) ==
    IF r.adequate THEN on_adequate(s, r) ELSE on_not_adequate(s, r)

\* mutant: > for >= in the completion check
check_completed_off_by_one(s) ==
    IF s.current_question > Len(s.questions) /\ s.stage # "ended"
    THEN [s EXCEPT !.stage = "completed"]
    ELSE s

\* "Check if all questions are completed after potential progression"
check_completed(s) ==
    IF s.current_question >= Len(s.questions) /\ s.stage # "ended"
    THEN [s EXCEPT !.stage = "completed"]
    ELSE s

\* mutant: the handler ends without the completion check
submit_answer_without_completion_check(s, user_input, svc) ==
    IF is_exit_command(user_input) THEN on_exit_command(s, user_input)
    ELSE IF is_blank(user_input) THEN s
    ELSE on_evaluated([s EXCEPT !.chat_history = Append(@, User(user_input))],
                      evaluate_answer(user_input, svc))

\* the handler of the Submit Answer button
submit_answer(s, user_input, svc) ==
    check_completed(
        IF is_exit_command(user_input) THEN on_exit_command(s, user_input)
        ELSE IF is_blank(user_input) THEN s
        ELSE on_evaluated([s EXCEPT !.chat_history = Append(@, User(user_input))],
                          evaluate_answer(user_input, svc)))

\* mutant: the End Interview button completes the interview
end_interview_completes(s) ==
    [s EXCEPT !.stage = "completed", !.chat_history = Append(@, Bot(MsgEnded))]

\* the handler of the End Interview button
end_interview(s) ==
    [s EXCEPT !.stage = "ended", !.chat_history = Append(@, Bot(MsgEnded))]

\* mutant: consent is accepted without a greeting
consent_continue_silent(s) == [s EXCEPT !.stage = "form"]

\* the handler of the consent button
consent_continue(s) ==
    [s EXCEPT !.stage = "form", !.chat_history = Append(@, Bot(MsgConsent))]

\* mutant: the phone number is not checked
form_errors_without_phone(f) ==
    {k \in {"full_name", "position", "location", "tech_stack"} : strip(f[k]) = <<>>}
    \cup (IF strip(f.email) = <<>> \/ ~validate_email(f.email) THEN {"email"} ELSE {})

\* the fields of the candidate form whose check fails
form_errors(f) ==
    {k \in {"full_name", "position", "location", "tech_stack"} : strip(f[k]) = <<>>}
    \cup (IF strip(f.email) = <<>> \/ ~validate_email(f.email) THEN {"email"} ELSE {})
    \cup (IF strip(f.phone) = <<>> \/ ~validate_phone(f.phone) THEN {"phone"} ELSE {})

\* the buttons the Consent branch creates: st.rerun() ends the execution
\* right after the continue button, before the decline button's statement
consent_buttons == {"consent_continue"}

\* the handler of the form's submit button
submit_form(s, f, svc) ==
    IF form_errors(f) # {} THEN s
    ELSE [s EXCEPT
            !.candidate_data =
                [full_name |-> strip(f.full_name), email |-> strip(f.email),
                 phone |-> strip(f.phone), experience |-> f.experience,
                 position |-> strip(f.position), location |-> strip(f.location),
                 tech_stack |-> strip(f.tech_stack), interview_date |-> "now"],
            !.questions = generate_technical_questions(f.tech_stack, svc),
            !.stage = "interview",
            !.chat_history = Append(@, Bot(MsgHello))]

\* mutant: the answer box and the buttons are there in every stage
answer_widgets_rendered_in_every_stage(s) ==
    /\ s.current_question < Len(s.questions)
    /\ HasKey(s.questions[s.current_question + 1], "difficulty")
    /\ HasKey(s.questions[s.current_question + 1], "question")

\* the Interview branch shows the answer box and both buttons only after it
\* has read the current question's difficulty and text
answer_widgets_rendered(s) ==
    /\ s.stage = "interview"
    /\ s.current_question < Len(s.questions)
    /\ HasKey(s.questions[s.current_question + 1], "difficulty")
    /\ HasKey(s.questions[s.current_question + 1], "question")

\* save_candidate_data: "completion_rate", in hundredths
completion_rate(data) ==
    LET total_questions == Len(data.questions)
    IN  IF total_questions > 0 THEN (total_questions * 100) \div NumQuestions ELSE 0

\* the interview_data the completed and ended branches hand to
\* save_candidate_data
interview_data(s) ==
    IF s.stage = "completed"
    THEN [candidate |-> s.candidate_data, questions |-> s.questions,
          chat_history |-> s.chat_history, status |-> "completed"]
    ELSE [candidate |-> s.candidate_data, questions |-> s.questions,
          chat_history |-> s.chat_history, status |-> "ended_early",
          questions_completed |-> s.current_question]

\* dict.get(k)
Get(d, k) == IF HasKey(d, k) THEN d[k] ELSE None

\* save_candidate_data: the "chat_history" of the record it writes (the
\* timestamp and the sentiment label, which decide nothing, are left out)
transcript_chat_history(data) ==
    [i \in DOMAIN data.chat_history |->
        LET chat == data.chat_history[i]
        IN  [type |-> chat.type,
             message |-> chat.message,
             evaluation |-> IF chat.type = "user" THEN Get(chat, "evaluation") ELSE None,
             question_asked |-> IF chat.type = "user" THEN Get(chat, "question_asked")
                                ELSE None]]

(***************************************************************************)
(* save_candidate_data: the update of the aggregate analytics file.  The   *)
(* file is absent, holds a record, or is empty because a writer has opened *)
(* it with mode 'w' and not yet written.  The averages are in hundredths.  *)
(***************************************************************************)
NoFile == [content |-> "absent"]

Truncated == [content |-> "empty"]

Analytics(total, completed) ==
    [total_interviews |-> total, completed_interviews |-> completed,
     average_completion_rate |->
         IF total = 0 THEN 0 ELSE (completed * 100) \div total]

\* the analytics_data of a first save
DefaultAnalytics ==
    [total_interviews |-> 0, completed_interviews |-> 0, average_completion_rate |-> 0]

\* os.path.exists / json.load; the load of an empty file raises
load_analytics(file) == IF file = NoFile THEN DefaultAnalytics ELSE file

\* mutant: every save counts as a completed interview
update_analytics_completes_every_status(analytics_data, status) ==
    Analytics(analytics_data.total_interviews + 1,
              analytics_data.completed_interviews + 1)

\* the in-memory update of analytics_data
update_analytics(analytics_data, status) ==
    Analytics(analytics_data.total_interviews + 1,
              analytics_data.completed_interviews
                  + (IF status = "completed" THEN 1 ELSE 0))

(***************************************************************************)
(* Inputs                                                                  *)
(***************************************************************************)
ValidForm ==
    [full_name |-> <<"A","n","a">>,
     email |-> <<"a","n","a","@","x",".","c","o","m">>,
     phone |-> <<"+","1","4","1","5","5","5","5","0","1","0","0">>,
     experience |-> "1-3",
     position |-> <<"D","e","v">>,
     location |-> <<"R","i","o">>,
     tech_stack |-> <<"P","y",","," ","S","Q","L">>]

BlankNameForm == [ValidForm EXCEPT !.full_name = <<" ">>]

BadEmailForm == [ValidForm EXCEPT !.email = <<"a","n","a","@","x">>]

ShortPhoneForm == [ValidForm EXCEPT !.phone = <<"5","5","5","-","0","1","0","0">>]

\* "stop" typed into every text field of the form
StopForm ==
    [full_name |-> <<"s","t","o","p">>, email |-> <<"s","t","o","p">>, phone |-> <<"s","t","o","p">>,
     experience |-> "0-1", position |-> <<"s","t","o","p">>, location |-> <<"s","t","o","p">>,
     tech_stack |-> <<"s","t","o","p">>]

FormInputs == {ValidForm, BlankNameForm, BadEmailForm, ShortPhoneForm, StopForm}

TextStop == <<"S","t","o","p"," ">>

TextBlank == <<" ">>

TextTooShort == <<"a","b">>

TextPleaseStop == <<"p","l","e","a","s","e"," ","s","t","o","p"," ","n","o","w">>

AnswerTexts == {TextStop, TextBlank, TextTooShort, TextPleaseStop}

GoodQuestions ==
    << Line("DIFFICULTY:", "Easy"),   Line("QUESTION:", "q1"),
       Line("DIFFICULTY:", "easy"),   Line("QUESTION:", "q2"),
       Line("DIFFICULTY:", "Medium"), Line("QUESTION:", "q3"),
       Line("DIFFICULTY:", "HARD"),   Line("QUESTION:", "q4") >>

\* a reply with three pairs only
ThreeQuestions == SubSeq(GoodQuestions, 1, 6)

\* a reply whose first DIFFICULTY line has no QUESTION line
MissingQuestion == <<Line("DIFFICULTY:", "Easy")>> \o Tail(Tail(GoodQuestions))

GenServices ==
    {NoClient, Replies(GoodQuestions), Replies(ThreeQuestions), Replies(MissingQuestion)}

SaysAdequate == Replies(<<Line("EVALUATION:", "ADEQUATE")>>)

SaysNeedsClarification ==
    Replies(<<Line("EVALUATION:", "needs_clarification"),
              Line("FEEDBACK:", "feedback")>>)

EvalServices == {SaysAdequate, SaysNeedsClarification, CallRaises}

FailingServices == {NoClient, CallRaises}

\* the answers of a candidate who keeps answering while the service is down
FailTexts == {TextStop, TextBlank, TextPleaseStop}

NonBlankTexts == {t \in FailTexts : ~is_blank(t)}

TextEmpty == <<>>

TextGibberish == <<"a","a","a","a","a","a">>

TextNoIdea == <<"n","o"," ","i","d","e","a">>

TextCaching == <<"I"," ","u","s","e"," ","c","a","c","h","i","n","g">>

ValidatorTexts ==
    {TextEmpty, TextBlank, TextTooShort, TextGibberish, TextNoIdea, TextCaching}

(***************************************************************************)
(* The state machine.  One action is one execution of main() for one       *)
(* widget event, together with the execution st.rerun() starts at its end: *)
(* in stage completed or ended that second execution calls                 *)
(* save_candidate_data.  The calls of one session are counted in           *)
(* saveCalls; the steps of a call on the aggregate file are those of       *)
(* AggregateSpec.                                                          *)
(***************************************************************************)
MaxSaveCalls == 2

Event(op) == [op |-> op, text |-> <<>>, form |-> EmptyDict, saves |-> 0]

Apply(s) ==
    /\ stage' = s.stage
    /\ chat_history' = s.chat_history
    /\ candidate_data' = s.candidate_data
    /\ current_question' = s.current_question
    /\ questions' = s.questions
    /\ current_question_retries' = s.current_question_retries

\* save_candidate_data calls made by the execution that st.rerun() starts
SavesOnRerun(s) == IF s.stage \in Terminal THEN 1 ELSE 0

Init ==
    /\ stage = NewSession.stage
    /\ chat_history = NewSession.chat_history
    /\ candidate_data = NewSession.candidate_data
    /\ current_question = NewSession.current_question
    /\ questions = NewSession.questions
    /\ current_question_retries = NewSession.current_question_retries
    /\ saveCalls = 0
    /\ evals = <<>>
    /\ turn = Event("start")
    /\ analytics_file = NoFile
    /\ saving = <<>>

ConsentContinue ==
    /\ stage = "consent"
    /\ Apply(consent_continue(Session))
    /\ turn' = Event("consent")
    /\ UNCHANGED <<saveCalls, evals>>
    /\ UNCHANGED aggregate

SubmitFormWith(svcs) ==
    /\ stage = "form"
    /\ \E f \in FormInputs, svc \in svcs :
          /\ Apply(submit_form(Session, f, svc))
          /\ turn' = [Event("form") EXCEPT !.form = f]
    /\ UNCHANGED <<saveCalls, evals>>
    /\ UNCHANGED aggregate

SubmitAnswerWith(texts, svcs) ==
    /\ answer_widgets_rendered(Session)
    /\ \E user_input \in texts, svc \in svcs :
          LET s == submit_answer(Session, user_input, svc)
          IN  /\ Apply(s)
              /\ saveCalls' = saveCalls + SavesOnRerun(s)
              /\ evals' = IF is_evaluated(user_input)
                          THEN Append(evals, [q |-> current_question,
                                              result |-> evaluate_answer(user_input, svc)])
                          ELSE evals
              /\ turn' = [Event("answer") EXCEPT !.text = user_input]
    /\ UNCHANGED aggregate

EndInterview ==
    /\ answer_widgets_rendered(Session)
    /\ Apply(end_interview(Session))
    /\ saveCalls' = saveCalls + SavesOnRerun(end_interview(Session))
    /\ turn' = Event("end_button")
    /\ UNCHANGED evals
    /\ UNCHANGED aggregate

\* main() executed again with no button pressed (the language selector of
\* the sidebar changed, the page was refreshed)
Rerun ==
    /\ IF stage \in Terminal
       THEN saveCalls < MaxSaveCalls /\ saveCalls' = saveCalls + 1
       ELSE UNCHANGED saveCalls
    /\ UNCHANGED <<session, evals, turn>>
    /\ UNCHANGED aggregate

\* "Start New Interview": the execution that sees the click first saves
\* once more, then deletes every key of st.session_state
Restart ==
    /\ stage \in Terminal
    /\ Apply(NewSession)
    /\ saveCalls' = 0
    /\ evals' = <<>>
    /\ turn' = [Event("restart") EXCEPT !.saves = saveCalls + 1]
    /\ UNCHANGED aggregate

Next ==
    \/ ConsentContinue
    \/ SubmitFormWith(GenServices)
    \/ SubmitAnswerWith(AnswerTexts, EvalServices)
    \/ EndInterview
    \/ Rerun
    \/ Restart

Spec == Init /\ [][Next]_vars

(***************************************************************************)
(* Total failure of the external service: the client is missing or every   *)
(* call raises, and the candidate keeps submitting non-blank answers.      *)
(***************************************************************************)
NextFail ==
    \/ ConsentContinue
    \/ SubmitFormWith(FailingServices)
    \/ SubmitAnswerWith(FailTexts, FailingServices)
    \/ EndInterview
    \/ Rerun
    \/ Restart

FailSpec ==
    /\ Init
    /\ [][NextFail]_vars
    /\ WF_vars(SubmitAnswerWith(NonBlankTexts, FailingServices))

(***************************************************************************)
(* One interview answered with texts of every class of the validator.      *)
(***************************************************************************)
NextValidator ==
    \/ ConsentContinue
    \/ SubmitFormWith({NoClient})
    \/ SubmitAnswerWith(ValidatorTexts, {SaysAdequate})

ValidatorSpec == Init /\ [][NextValidator]_vars

(***************************************************************************)
(* generate_technical_questions on its own: a tech stack and a behaviour   *)
(* of the generation service are drawn, then the function is applied.  A   *)
(* reply is put together from blocks of lines; the text of a QUESTION line *)
(* is the position of its block in the reply.                              *)
(***************************************************************************)
MaxBlocks == 5

BlockKinds ==
    {"Easy", "easy", "Medium", "HARD", "Expert", "no_question", "no_difficulty"}

\* the text of the QUESTION line at position i
QuestionText(i) == [position |-> i]

\* the lines of the block of the given kind at position i of a reply
BlockLines(kind, i) ==
    CASE kind = "no_question" -> <<Line("DIFFICULTY:", "Easy")>>
      [] kind = "no_difficulty" -> <<Line("QUESTION:", QuestionText(i))>>
      [] OTHER -> <<Line("DIFFICULTY:", kind), Line("QUESTION:", QuestionText(i))>>

RECURSIVE ReplyLines(_, _)
ReplyLines(kinds, n) ==
    IF n = 0 THEN <<>>
    ELSE ReplyLines(kinds, n - 1) \o BlockLines(kinds[n], n)

ReplyTexts ==
    {ReplyLines(kinds, Len(kinds)) :
        kinds \in UNION {[1..n -> BlockKinds] : n \in 0..MaxBlocks}}

GenBehaviours == {NoClient, CallRaises} \cup {Replies(r) : r \in ReplyTexts}

TechStacks == {<<>>, ValidForm.tech_stack, <<",", "x">>}

\* the session state inside which a function is applied on its own
FreshSession ==
    /\ stage = NewSession.stage
    /\ chat_history = NewSession.chat_history
    /\ candidate_data = NewSession.candidate_data
    /\ current_question = NewSession.current_question
    /\ questions = NewSession.questions
    /\ current_question_retries = NewSession.current_question_retries
    /\ saveCalls = 0
    /\ evals = <<>>
    /\ analytics_file = NoFile
    /\ saving = <<>>

GenerateInit ==
    /\ FreshSession
    /\ turn \in [op : {"input"}, tech_stack : TechStacks, svc : GenBehaviours]

Generate ==
    /\ turn.op = "input"
    /\ questions' = generate_technical_questions(turn.tech_stack, turn.svc)
    /\ turn' = [turn EXCEPT !.op = "generated"]
    /\ UNCHANGED <<stage, chat_history, candidate_data, current_question,
                   current_question_retries, saveCalls, evals>>
    /\ UNCHANGED aggregate

GenerateSpec == GenerateInit /\ [][Generate]_vars

(***************************************************************************)
(* validate_user_input on its own: a text is drawn, then the function is   *)
(* applied.  The texts are all texts over a small alphabet up to a length  *)
(* that lets every rule fire, and the examples of the specification.       *)
(***************************************************************************)
MaxTextLen == 6

TextAlphabet == {"a", "A", "b", " "}

TextOk == <<"o","k">>

TextCachingLoad ==
    <<"I"," ","u","s","e"," ","c","a","c","h","i","n","g"," ","t","o"," ",
      "r","e","d","u","c","e"," ","l","o","a","d">>

ExampleTexts == {TextEmpty, TextTooShort, TextGibberish, TextOk, TextNoIdea, TextCachingLoad}

InputTexts ==
    UNION {[1..n -> TextAlphabet] : n \in 0..MaxTextLen} \cup ExampleTexts

ValidateInit ==
    /\ FreshSession
    /\ turn \in [op : {"input"}, text : InputTexts, result : {EmptyDict}]

Validate ==
    /\ turn.op = "input"
    /\ turn' = [turn EXCEPT !.op = "validated",
                            !.result = validate_user_input(turn.text)]
    /\ UNCHANGED <<session, saveCalls, evals>>
    /\ UNCHANGED aggregate

ValidateSpec == ValidateInit /\ [][Validate]_vars

(***************************************************************************)
(* evaluate_answer on its own: an answer and a behaviour of the            *)
(* classification service are drawn, then the function is applied.  A      *)
(* reply is a list of up to MaxReplyLines lines.                           *)
(***************************************************************************)
MaxReplyLines == 3

EvaluationLines ==
    {Line("EVALUATION:", v) :
        v \in {"ADEQUATE", "adequate", "NEEDS_CLARIFICATION", "IRRELEVANT", "MAYBE"}}
    \cup {Line("FEEDBACK:", "feedback"), Line("", "text")}

EvaluationReplies == UNION {[1..n -> EvaluationLines] : n \in 0..MaxReplyLines}

EvalBehaviours == {NoClient, CallRaises} \cup {Replies(r) : r \in EvaluationReplies}

TextNotSure == <<"I"," ","a","m"," ","n","o","t"," ","s","u","r","e">>

EvalTexts == ExampleTexts \cup {TextBlank, TextNotSure}

EvaluateInit ==
    /\ FreshSession
    /\ turn \in [op : {"input"}, text : EvalTexts, svc : EvalBehaviours]

Evaluate ==
    /\ turn.op = "input"
    /\ evals' = <<[q |-> current_question,
                   result |-> evaluate_answer(turn.text, turn.svc)]>>
    /\ turn' = [turn EXCEPT !.op = "evaluated"]
    /\ UNCHANGED <<session, saveCalls>>
    /\ UNCHANGED aggregate

EvaluateSpec == EvaluateInit /\ [][Evaluate]_vars

(***************************************************************************)
(* Two sessions, each in its own thread of the server, have reached a      *)
(* terminal stage and execute the aggregate update of save_candidate_data: *)
(* read the file, update in memory, open the file for writing, write.      *)
(* Nothing orders the steps of one call with those of the other.  When two *)
(* writes overlap, the file ends up with the content written last.         *)
(***************************************************************************)
MaxPriorInterviews == 1

Savers == {"first", "second"}

PriorFiles ==
    {NoFile} \cup UNION {{Analytics(total, completed) : completed \in 0..total} :
                            total \in 1..MaxPriorInterviews}

AggregateInit ==
    /\ stage = NewSession.stage
    /\ chat_history = NewSession.chat_history
    /\ candidate_data = NewSession.candidate_data
    /\ current_question = NewSession.current_question
    /\ questions = NewSession.questions
    /\ current_question_retries = NewSession.current_question_retries
    /\ saveCalls = 0
    /\ evals = <<>>
    /\ analytics_file \in PriorFiles
    /\ turn = [op |-> "save", initial |-> analytics_file]
    /\ saving \in [Savers -> [pc : {"read"}, status : {"completed", "ended_early"},
                              analytics_data : {DefaultAnalytics}]]

\* with open(analytics_file, 'r') ... json.load(f), or the default, and the
\* update of the loaded record
ReadAnalytics(i) ==
    /\ saving[i].pc = "read"
    /\ analytics_file # Truncated
    /\ saving' = [saving EXCEPT
                     ![i].pc = "write",
                     ![i].analytics_data =
                         update_analytics(load_analytics(analytics_file), saving[i].status)]
    /\ UNCHANGED <<analytics_file, session, saveCalls, evals, turn>>

\* json.load of the empty file raises; the except clause returns False
ReadFails(i) ==
    /\ saving[i].pc = "read"
    /\ analytics_file = Truncated
    /\ saving' = [saving EXCEPT ![i].pc = "failed"]
    /\ UNCHANGED <<analytics_file, session, saveCalls, evals, turn>>

\* with open(analytics_file, 'w')
OpenForWrite(i) ==
    /\ saving[i].pc = "write"
    /\ analytics_file' = Truncated
    /\ saving' = [saving EXCEPT ![i].pc = "dump"]
    /\ UNCHANGED <<session, saveCalls, evals, turn>>

\* json.dump(analytics_data, f)
Dump(i) ==
    /\ saving[i].pc = "dump"
    /\ analytics_file' = saving[i].analytics_data
    /\ saving' = [saving EXCEPT ![i].pc = "done"]
    /\ UNCHANGED <<session, saveCalls, evals, turn>>

AggregateNext ==
    \E i \in Savers :
        \/ ReadAnalytics(i)
        \/ ReadFails(i)
        \/ OpenForWrite(i)
        \/ Dump(i)

AggregateSpec == AggregateInit /\ [][AggregateNext]_vars

(***************************************************************************)
(* save_candidate_data called again and again, each call returning before  *)
(* the next one starts, on an analytics directory that has no file yet.    *)
(* saving is the list of the calls made so far, the last one possibly in   *)
(* progress.  A call can raise before it reaches the aggregate update (the *)
(* candidate file cannot be written): it then returns False and leaves the *)
(* aggregate file as it is.                                                *)
(***************************************************************************)
MaxSaves == 5

Returned(call) == call.pc \in {"done", "failed"}

SequentialInit ==
    /\ FreshSession
    /\ turn = [op |-> "save", initial |-> NoFile]

\* a call enters the aggregate update
StartSave ==
    /\ Len(saving) < MaxSaves
    /\ \A i \in DOMAIN saving : Returned(saving[i])
    /\ \E status \in {"completed", "ended_early"} :
          saving' = Append(saving, [pc |-> "read", status |-> status,
                                    analytics_data |-> DefaultAnalytics])
    /\ UNCHANGED <<analytics_file, session, saveCalls, evals, turn>>

\* a call raises before the aggregate update; the except clause returns False
SaveRaises ==
    /\ Len(saving) < MaxSaves
    /\ \A i \in DOMAIN saving : Returned(saving[i])
    /\ \E status \in {"completed", "ended_early"} :
          saving' = Append(saving, [pc |-> "failed", status |-> status,
                                    analytics_data |-> DefaultAnalytics])
    /\ UNCHANGED <<analytics_file, session, saveCalls, evals, turn>>

SequentialNext ==
    \/ StartSave
    \/ SaveRaises
    \/ \E i \in DOMAIN saving : ReadAnalytics(i)
    \/ \E i \in DOMAIN saving : OpenForWrite(i)
    \/ \E i \in DOMAIN saving : Dump(i)

SequentialSpec == SequentialInit /\ [][SequentialNext]_vars

(***************************************************************************)
(* Properties                                                              *)
(***************************************************************************)
LastEval == evals[Len(evals)]

NewEval == evals'[Len(evals')]

\* the step hands an answer to evaluate_answer
EvaluatesAnswer == Len(evals') = Len(evals) + 1

\* the step is the Submit Answer handler (a repeated blank submission, which
\* changes nothing at all, is a stuttering step)
AnswerStep == stage = "interview" /\ turn'.op = "answer"

Tag(qs, q) ==
    IF HasKey(qs[q + 1], "final_evaluation_type")
    THEN qs[q + 1].final_evaluation_type
    ELSE None

Tags(qs) == [i \in DOMAIN qs |-> Tag(qs, i - 1)]

\* the previous evaluated answer was a non-adequate answer to question q
PreviousFailedOn(q) ==
    Len(evals) > 0 /\ LastEval.q = q /\ ~LastEval.result.adequate

\* C1: of two consecutive non-adequate evaluated answers to one question the
\* first leaves current_question unchanged and appends the evaluator's
\* feedback; the second advances current_question by 1, tags the question
\* FAILED_ATTEMPTS and appends the neutral "moving on" message.
C1_RetryCap ==
    [][(EvaluatesAnswer /\ ~NewEval.result.adequate) =>
          IF PreviousFailedOn(NewEval.q)
          THEN /\ current_question' = current_question + 1
               /\ Tag(questions', current_question) = "FAILED_ATTEMPTS"
               /\ chat_history' =
                      chat_history \o <<User(turn'.text), Bot(MsgMovingOn)>>
          ELSE /\ current_question' = current_question
               /\ Tags(questions') = Tags(questions)
               /\ chat_history' =
                      chat_history \o <<User(turn'.text), Bot(NewEval.result.feedback)>>
      ]_vars

\* two non-adequate answers in a row to one question forced the advance
C1_Witness ==
    /\ Len(evals) >= 2
    /\ evals[Len(evals) - 1].q = LastEval.q
    /\ ~evals[Len(evals) - 1].result.adequate
    /\ ~LastEval.result.adequate
    /\ current_question = LastEval.q + 1
    /\ Tag(questions, LastEval.q) = "FAILED_ATTEMPTS"

\* C2: an answer evaluated as adequate advances current_question by exactly
\* 1, sets current_question_retries to 0 and tags the answered question
\* ADEQUATE, whatever the retry counter was.
C2_AdequateAdvances ==
    [][(EvaluatesAnswer /\ NewEval.result.adequate) =>
          /\ current_question' = current_question + 1
          /\ current_question_retries' = 0
          /\ Tag(questions', current_question) = "ADEQUATE"
      ]_vars

\* an adequate answer that followed a non-adequate answer to the same question
C2_Witness ==
    /\ Len(evals) >= 2
    /\ evals[Len(evals) - 1].q = LastEval.q
    /\ ~evals[Len(evals) - 1].result.adequate
    /\ LastEval.result.adequate
    /\ current_question = LastEval.q + 1
    /\ current_question_retries = 0
    /\ Tag(questions, LastEval.q) = "ADEQUATE"

\* C3: when every service call fails or the client is missing, a session
\* in the Interview stage whose candidate keeps submitting non-blank
\* answers eventually reaches stage completed or ended.
C3_TerminatesUnderFailure == (stage = "interview") ~> (stage \in Terminal)

\* the interview ran to completion on failed evaluations alone
C3_Witness ==
    /\ stage = "completed"
    /\ Len(evals) = 2 * NumQuestions
    /\ \A i \in DOMAIN evals : evals[i].result.type = "ERROR"

\* C4 as stated: current_question equals 4 exactly in the terminal stages.
C4_IndexFourIffTerminal ==
    (current_question = NumQuestions) <=> (stage \in Terminal)

\* C4 as amended: current_question equals 4 exactly in stage completed; a
\* session in stage ended was ended early, with current_question below 4.
C4_IndexFourIffCompleted ==
    /\ (current_question = NumQuestions) <=> (stage = "completed")
    /\ stage = "ended" => current_question < NumQuestions

\* the last answer moved the index to 4 and the stage to completed
C4_Witness ==
    /\ stage = "completed"
    /\ current_question = NumQuestions
    /\ turn.op = "answer"

\* C5: in the stages interview, completed and ended there are exactly 4
\* questions, 0 <= current_question <= 4 and
\* 0 <= current_question_retries <= 2.
C5_SessionBounds ==
    stage \in {"interview", "completed", "ended"} =>
        /\ Len(questions) = NumQuestions
        /\ current_question \in 0..NumQuestions
        /\ current_question_retries \in 0..RetryLimit

\* the last question, after one failed attempt at it
C5_Witness ==
    /\ stage = "interview"
    /\ current_question = NumQuestions - 1
    /\ current_question_retries = 1

\* C6: a step that changes current_question, other than the restart,
\* increases it by exactly 1 and leaves current_question_retries at 0.
C6_IndexStepsByOne ==
    [][(current_question' # current_question /\ turn'.op # "restart") =>
          /\ current_question' = current_question + 1
          /\ current_question_retries' = 0
      ]_vars

\* the index has advanced past a question that used up its retries
C6_Witness ==
    /\ stage = "interview"
    /\ current_question = 2
    /\ current_question_retries = 0
    /\ Tag(questions, 1) = "FAILED_ATTEMPTS"

TextFields == {"full_name", "email", "phone", "position", "location", "tech_stack"}

\* the turn submitted an exit keyword: as the answer, or in a field of the form
ExitTurn(t) ==
    \/ t.op = "answer" /\ is_exit_command(t.text)
    \/ t.op = "form" /\ \E k \in TextFields : is_exit_command(t.form[k])

\* C7: after a turn that submitted an exit keyword in stage form or
\* interview, the stage is ended.
C7_ExitEndsSession == ExitTurn(turn) => stage = "ended"

\* an exit keyword occurs somewhere in the text
contains_exit_keyword(user_input) ==
    \E i, j \in DOMAIN user_input :
        i <= j /\ SubSeq(lower(user_input), i, j) \in ExitKeywords

\* C8 as stated: an Interview answer that contains an exit keyword ends the
\* session.
C8_KeywordAnywhereEnds ==
    (turn.op = "answer" /\ contains_exit_keyword(turn.text)) => stage = "ended"

\* the whole text, trimmed and lower-cased, is an exit keyword
WholeTextIsKeyword(text) == lower(strip(text)) \in ExitKeywords

\* C8 as amended: the Submit Answer handler ends the session exactly when
\* the whole text, trimmed and lower-cased, is an exit keyword, and then
\* nothing is evaluated; a non-blank answer that only contains a keyword
\* among other words is evaluated and the session goes on.
C8_ExactKeywordEnds ==
    [][AnswerStep =>
          IF WholeTextIsKeyword(turn'.text)
          THEN stage' = "ended" /\ evals' = evals
          ELSE /\ stage' # "ended"
               /\ ~is_blank(turn'.text) => EvaluatesAnswer
      ]_vars

\* "please stop now" was evaluated as an answer
C8_Witness ==
    /\ turn.op = "answer"
    /\ contains_exit_keyword(turn.text)
    /\ ~WholeTextIsKeyword(turn.text)
    /\ stage = "interview"
    /\ Len(evals) > 0
    /\ chat_history[Len(chat_history) - 1] = User(turn.text)

RejectedAnswer(text) == ~is_exit_command(text) /\ ~validate_user_input(text).valid

\* C9 as stated: an answer the validator rejects leaves stage,
\* current_question, current_question_retries and the tags unchanged.
C9_RejectedAnswerKeepsState ==
    [][(AnswerStep /\ RejectedAnswer(turn'.text)) =>
          /\ stage' = stage
          /\ current_question' = current_question
          /\ current_question_retries' = current_question_retries
          /\ Tags(questions') = Tags(questions)
      ]_vars

\* C9 as amended: a blank answer changes nothing, the log included; a
\* non-blank answer the validator rejects is a non-adequate attempt: the log
\* grows by the user message and one assistant message, the first attempt at
\* a question raises current_question_retries to 1 and leaves stage,
\* current_question and tags unchanged, the second one force-advances.
C9_RejectedAnswerUsesRetry ==
    [][(AnswerStep /\ RejectedAnswer(turn'.text)) =>
          IF is_blank(turn'.text)
          THEN UNCHANGED <<session, evals, saveCalls>>
          ELSE /\ EvaluatesAnswer
               /\ ~NewEval.result.adequate
               /\ Len(chat_history') = Len(chat_history) + 2
               /\ SubSeq(chat_history', 1, Len(chat_history) + 1) =
                      Append(chat_history, User(turn'.text))
               /\ chat_history'[Len(chat_history')].type = "bot"
               /\ IF current_question_retries = 0
                  THEN /\ stage' = stage
                       /\ current_question' = current_question
                       /\ current_question_retries' = 1
                       /\ questions' = questions
                  ELSE /\ current_question' = current_question + 1
                       /\ current_question_retries' = 0
                       /\ Tag(questions', current_question) = "FAILED_ATTEMPTS"
      ]_vars

\* a rejected, non-blank answer has used up one retry
C9_Witness ==
    /\ turn.op = "answer"
    /\ RejectedAnswer(turn.text)
    /\ validate_user_input(turn.text).reason = "insufficient_detail"
    /\ stage = "interview"
    /\ current_question_retries = 1
    /\ chat_history[Len(chat_history)] = Bot(MsgInsufficient)

\* C10: save_candidate_data is invoked exactly once per session: once in a
\* terminal stage, and once in all when the session is restarted.
C10_SavedExactlyOnce ==
    /\ stage \in Terminal => saveCalls = 1
    /\ stage \notin Terminal => saveCalls = 0
    /\ turn.op = "restart" => turn.saves = 1

\* the messages a step has appended to the log
Appended == SubSeq(chat_history', Len(chat_history) + 1, Len(chat_history'))

CountOf(msgs, type) == Len(SelectSeq(msgs, LAMBDA m : m.type = type))

\* the step keeps the log and appends exactly one assistant message and at
\* most one user message
AppendsOneReply ==
    /\ Len(chat_history') >= Len(chat_history)
    /\ SubSeq(chat_history', 1, Len(chat_history)) = chat_history
    /\ CountOf(Appended, "bot") = 1
    /\ CountOf(Appended, "user") <= 1
    /\ Len(Appended) = CountOf(Appended, "bot") + CountOf(Appended, "user")

\* consent accepted, profile accepted, answer evaluated, exit keyword (both
\* are the non-blank submissions of an answer), End Interview button; the
\* entry to completed is the step of the last evaluated answer
ForwardTransition ==
    \/ stage = "consent" /\ stage' = "form"
    \/ stage = "form" /\ stage' = "interview"
    \/ AnswerStep /\ ~is_blank(turn'.text)
    \/ stage = "interview" /\ turn'.op = "end_button"
    \/ stage = "interview" /\ stage' = "completed"

RestartTransition == stage \in Terminal /\ turn'.op = "restart"

\* C11 as stated: every stage transition or accepted turn, the restart
\* included, appends exactly one assistant message and at most one user
\* message to chat_history.
C11_EveryTransitionAppendsOneReply ==
    [][(ForwardTransition \/ RestartTransition) => AppendsOneReply]_vars

\* C11 as amended: consent accepted, profile accepted, an evaluated answer,
\* the exit keyword, the End Interview button and the entry to completed
\* keep the log and append exactly one assistant message and at most one
\* user message; the restart appends nothing and leaves the log empty.
C11_ForwardTransitionAppendsOneReply ==
    [][/\ ForwardTransition => AppendsOneReply
       /\ RestartTransition => chat_history' = <<>>
      ]_vars

\* a finished interview was restarted, and its log is gone
C11_Witness ==
    /\ turn.op = "restart"
    /\ stage = "consent"
    /\ chat_history = <<>>
    /\ questions = <<>>

\* the pairs a reading of the reply by hand recovers: one per DIFFICULTY line
DifficultyLines(lines) == SelectSeq(lines, LAMBDA l : l.tag = "DIFFICULTY:")

Generated == turn.op = "generated"

\* the difficulty levels of the questions, whatever the case of the labels
Levels(qs) ==
    [i \in DOMAIN qs |->
        IF ~HasKey(qs[i], "difficulty") THEN None
        ELSE CASE qs[i].difficulty \in {"Easy", "easy", "EASY"} -> "Easy"
               [] qs[i].difficulty \in {"Medium", "medium", "MEDIUM"} -> "Medium"
               [] qs[i].difficulty \in {"Hard", "hard", "HARD"} -> "Hard"
               [] OTHER -> None]

\* C12: for every tech stack and every behaviour of the generation service
\* (any reply, an exception, no client) generate_technical_questions
\* returns exactly 4 questions whose difficulty levels are, in this order,
\* Easy, Easy, Medium, Hard (the letter case of the labels is C14's
\* subject).
C12_FourQuestionsInOrder ==
    Generated =>
        /\ Len(questions) = NumQuestions
        /\ Levels(questions) = <<"Easy", "Easy", "Medium", "Hard">>

\* a reply with 4 complete pairs in the wrong order was answered with the
\* fallback questions
C12_Witness ==
    /\ Generated
    /\ turn.svc.client /\ ~turn.svc.raises
    /\ Len(DifficultyLines(turn.svc.reply)) = NumQuestions
    /\ Len(turn.svc.reply) = 2 * NumQuestions
    /\ turn.svc.reply[1].val = "HARD"
    /\ questions = get_fallback_questions(turn.tech_stack)

\* the number of difficulty/question pairs in a reply: DIFFICULTY lines
\* directly followed by a QUESTION line
RecoverablePairs(lines) ==
    Cardinality({i \in 1..(Len(lines) - 1) :
                    lines[i].tag = "DIFFICULTY:" /\ lines[i + 1].tag = "QUESTION:"})

\* C13: a reply from which more than 4 difficulty/question pairs can be
\* recovered is rejected: generate_technical_questions returns the fallback
\* questions, not the first 4 pairs of the reply.
C13_MoreThanFourRejected ==
    (/\ Generated
     /\ turn.svc.client /\ ~turn.svc.raises
     /\ RecoverablePairs(turn.svc.reply) > NumQuestions)
        => questions = get_fallback_questions(turn.tech_stack)

\* C14: every question generate_technical_questions returns has a
\* difficulty that is exactly one of the strings Easy, Medium, Hard, also
\* when the reply spelled the labels in another letter case.
C14_DifficultyNormalized ==
    Generated =>
        \A i \in DOMAIN questions :
            /\ HasKey(questions[i], "difficulty")
            /\ questions[i].difficulty \in {"Easy", "Medium", "Hard"}

\* C15: every question generate_technical_questions returns has both a
\* difficulty and a question text (a reply with four correctly ordered
\* DIFFICULTY lines and a missing QUESTION line yields the fallback), and
\* the Interview stage, when it reads the current question, never fails.
C15_QuestionsUsable ==
    /\ \A i \in DOMAIN questions :
          HasKey(questions[i], "difficulty") /\ HasKey(questions[i], "question")
    /\ (stage = "interview" /\ current_question < Len(questions))
          => answer_widgets_rendered(Session)

Validated == turn.op = "validated"

\* the measures of a text, taken from the text position by position
NonBlankPositions(text) == {i \in DOMAIN text : text[i] \notin Whitespace}

TrimmedLength(text) ==
    IF NonBlankPositions(text) = {} THEN 0
    ELSE LET first == CHOOSE i \in NonBlankPositions(text) :
                          \A j \in NonBlankPositions(text) : i <= j
             last == CHOOSE i \in NonBlankPositions(text) :
                          \A j \in NonBlankPositions(text) : i >= j
         IN  last - first + 1

\* the characters of the whole text, letters without regard to case
DistinctCharacters(text) == Cardinality({LowerChar(text[i]) : i \in DOMAIN text})

\* a word begins at a non-blank character that follows a blank or nothing
WordCount(text) ==
    Cardinality({i \in NonBlankPositions(text) : i = 1 \/ text[i - 1] \in Whitespace})

RuleOrderReason(text) ==
    IF TrimmedLength(text) = 0 THEN "blank"
    ELSE IF TrimmedLength(text) < 3 THEN "too_short"
    ELSE IF DistinctCharacters(text) < 3 /\ TrimmedLength(text) > 5 THEN "gibberish"
    ELSE IF WordCount(text) < 3 THEN "insufficient_detail"
    ELSE "good"

\* C16: validate_user_input applies its rules in order, first match wins:
\* trimmed length 0 -> blank; else trimmed length < 3 -> too_short; else
\* fewer than 3 distinct characters and trimmed length > 5 -> gibberish;
\* else fewer than 3 words -> insufficient_detail; otherwise valid.  The
\* result is determined by the text alone.
C16_RulesInOrder ==
    Validated =>
        /\ turn.result.reason = RuleOrderReason(turn.text)
        /\ turn.result.valid <=> RuleOrderReason(turn.text) = "good"

\* a text that the gibberish rule catches before the word-count rule does
C16_Witness ==
    /\ Validated
    /\ TrimmedLength(turn.text) > 5
    /\ DistinctCharacters(turn.text) < 3
    /\ WordCount(turn.text) < 3
    /\ turn.result.reason = "gibberish"
    /\ ~turn.result.valid

\* C17 as stated: "" -> blank; "ab" -> too_short; "aaaaaa" -> gibberish;
\* "ok" -> insufficient_detail; "I use caching to reduce load" -> valid.
C17_ExamplesAsListed ==
    Validated =>
        /\ turn.text = TextEmpty => turn.result.reason = "blank"
        /\ turn.text = TextTooShort => turn.result.reason = "too_short"
        /\ turn.text = TextGibberish => turn.result.reason = "gibberish"
        /\ turn.text = TextOk => turn.result.reason = "insufficient_detail"
        /\ turn.text = TextCachingLoad => turn.result.valid

\* C17 as amended: "" -> blank; "ab" -> too_short; "aaaaaa" -> gibberish;
\* "ok" -> too_short, as it has 2 characters; a text of 3 or more
\* characters in fewer than 3 words, as "no idea", -> insufficient_detail;
\* "I use caching to reduce load" -> valid.
C17_ExamplesAsComputed ==
    Validated =>
        /\ turn.text = TextEmpty
              => ~turn.result.valid /\ turn.result.reason = "blank"
        /\ turn.text = TextTooShort
              => ~turn.result.valid /\ turn.result.reason = "too_short"
        /\ turn.text = TextGibberish
              => ~turn.result.valid /\ turn.result.reason = "gibberish"
        /\ turn.text = TextOk
              => ~turn.result.valid /\ turn.result.reason = "too_short"
        /\ turn.text = TextNoIdea
              => ~turn.result.valid /\ turn.result.reason = "insufficient_detail"
        /\ turn.text = TextCachingLoad
              => turn.result.valid /\ turn.result.reason = "good"

\* "ok" was validated and found too short
C17_Witness ==
    /\ Validated
    /\ turn.text = TextOk
    /\ turn.result.reason = "too_short"
    /\ turn.result.message = MsgTooShort

Evaluated == turn.op = "evaluated"

\* the validator rejects the answer (by the rules, restated)
Rejected(text) == RuleOrderReason(text) # "good"

RejectionMessage(text) ==
    CASE RuleOrderReason(text) = "blank" -> MsgBlank
      [] RuleOrderReason(text) = "too_short" -> MsgTooShort
      [] RuleOrderReason(text) = "gibberish" -> MsgGibberish
      [] OTHER -> MsgInsufficient

ShortCircuited(r, text) ==
    /\ ~r.adequate
    /\ r.type = "NEEDS_CLARIFICATION"
    /\ r.feedback = RejectionMessage(text)
    /\ ~r.service_called

Classifications == {"ADEQUATE", "NEEDS_CLARIFICATION", "IRRELEVANT", "ERROR"}

\* the reply of the service was parsed: a client, no exception, an answer
\* the validator accepts
ReplyParsed == turn.svc.client /\ ~turn.svc.raises /\ ~Rejected(turn.text)

\* the EVALUATION label of the reply in upper case, "" if it has none
ReplyLabel == upper_label(LastLabelled(turn.svc.reply, "EVALUATION:", ""))

RECURSIVE HasPrefix(_, _)
HasPrefix(text, p) ==
    p = <<>> \/ (text # <<>> /\ Head(text) = Head(p) /\ HasPrefix(Tail(text), Tail(p)))

Contains(text, p) ==
    \E i \in 1..(Len(text) + 1) : HasPrefix(SubSeq(text, i, Len(text)), p)

\* "not sure", "don't know"
Hedging(text) ==
    \/ Contains(lower(text), <<"n","o","t"," ","s","u","r","e">>)
    \/ Contains(lower(text), <<"d","o","n","'","t"," ","k","n","o","w">>)

\* C19 as stated: on an unrecognized or absent EVALUATION label the
\* classification comes from the heuristic (hedging answer ->
\* NEEDS_CLARIFICATION, otherwise ADEQUATE), so the classification is
\* always one of ADEQUATE, NEEDS_CLARIFICATION, IRRELEVANT, ERROR.
C19_HeuristicFallback ==
    Evaluated =>
        /\ LastEval.result.type \in Classifications
        /\ (ReplyParsed /\ ReplyLabel \notin Classifications) =>
              LastEval.result.type =
                  IF Hedging(turn.text) THEN "NEEDS_CLARIFICATION" ELSE "ADEQUATE"

\* C19 as amended: the classification of a parsed reply is the text of its
\* last EVALUATION line in upper case, "" if there is none, and the answer
\* is adequate exactly when that is ADEQUATE; an unrecognized or absent
\* label therefore yields a non-adequate result whose classification is
\* outside the four values and whose feedback is the reply's or else the
\* "doesn't address the question" default.  Without a parsed reply the
\* classification is ERROR or NEEDS_CLARIFICATION.
C19_LabelReturnedAsReceived ==
    Evaluated =>
        IF ReplyParsed
        THEN /\ LastEval.result.type = ReplyLabel
             /\ LastEval.result.adequate <=> ReplyLabel = "ADEQUATE"
             /\ ReplyLabel \notin Classifications =>
                   /\ ~LastEval.result.adequate
                   /\ LastEval.result.feedback =
                         LastLabelled(turn.svc.reply, "FEEDBACK:", MsgNotAddressed)
        ELSE /\ ~LastEval.result.adequate
             /\ LastEval.result.type \in {"ERROR", "NEEDS_CLARIFICATION"}

\* a sound answer whose reply carried an unknown label was not accepted
C19_Witness ==
    /\ Evaluated
    /\ turn.text = TextCachingLoad
    /\ ~Hedging(turn.text)
    /\ ReplyParsed
    /\ ReplyLabel = "MAYBE"
    /\ LastEval.result.type = "MAYBE"
    /\ ~LastEval.result.adequate
    /\ LastEval.result.feedback = MsgNotAddressed

\* the questions without their tags
Untagged(qs) ==
    [i \in DOMAIN qs |-> [difficulty |-> qs[i].difficulty, question |-> qs[i].question]]

InInterviewOrLater == stage \in {"interview", "completed", "ended"}

\* C20 as stated: with the service disabled the fallback questions are
\* used, and after 4 evaluated answers of 3 words, one to each question,
\* the session is in stage completed with current_question = 4 and a
\* persisted completion rate of 1.0.
C20_FourAnswersComplete ==
    /\ InInterviewOrLater =>
          Untagged(questions) = get_fallback_questions(candidate_data.tech_stack)
    /\ (Len(evals) = NumQuestions /\ stage # "ended") =>
          /\ stage = "completed"
          /\ current_question = NumQuestions
          /\ saveCalls >= 1
          /\ completion_rate(interview_data(Session)) = 100

\* C20 as amended: with the service disabled the fallback questions are
\* used and no answer is adequate, so every question takes 2 evaluated
\* answers: after k of them current_question is k div 2; after 4 the
\* session is in stage interview at index 2, and after 8 it is in stage
\* completed with current_question = 4, every question tagged
\* FAILED_ATTEMPTS and a persisted completion rate of 1.0.
C20_EightAnswersComplete ==
    InInterviewOrLater =>
        /\ Untagged(questions) = get_fallback_questions(candidate_data.tech_stack)
        /\ \A i \in DOMAIN evals : ~evals[i].result.adequate
        /\ current_question = Len(evals) \div RetryLimit
        /\ current_question_retries = Len(evals) % RetryLimit
        /\ stage = "completed" <=> Len(evals) = RetryLimit * NumQuestions
        /\ stage = "completed" =>
              /\ current_question = NumQuestions
              /\ \A q \in 0..(NumQuestions - 1) : Tag(questions, q) = "FAILED_ATTEMPTS"
              /\ saveCalls >= 1
              /\ completion_rate(interview_data(Session)) = 100

\* four 3-word answers were given with the service disabled, and the
\* interview is at its third question
C20_Witness ==
    /\ stage = "interview"
    /\ Len(evals) = NumQuestions
    /\ \A i \in DOMAIN evals : evals[i].result.type = "ERROR"
    /\ turn.op = "answer"
    /\ validate_user_input(turn.text).valid
    /\ current_question = 2
    /\ current_question_retries = 0

\* a record of the session has been written
Persisted == stage \in Terminal /\ saveCalls >= 1

\* C21: the completion rate stored in the transcript is the number of
\* questions answered over 4: 1.0 for a completed session and
\* current_question / 4 for a session ended early (in hundredths).
C21_CompletionRateIsAnswered ==
    Persisted =>
        completion_rate(interview_data(Session)) =
            (current_question * 100) \div NumQuestions

StageEdges ==
    {<<"consent", "form">>, <<"form", "interview">>, <<"interview", "completed">>,
     <<"interview", "ended">>, <<"form", "ended">>}

RestartEdges == {<<"completed", "consent">>, <<"ended", "consent">>}

\* C22: the stage changes only along consent -> form, form -> interview,
\* interview -> completed, interview -> ended, form -> ended and, by the
\* restart, completed or ended -> consent; completed is entered only in a
\* step in which current_question reaches 4.
C22_StageEdges ==
    [][stage' # stage =>
          /\ IF turn'.op = "restart"
             THEN <<stage, stage'>> \in RestartEdges
             ELSE <<stage, stage'>> \in StageEdges
          /\ stage' = "completed" =>
                /\ current_question = NumQuestions - 1
                /\ current_question' = NumQuestions
      ]_vars

\* the exit keyword took the session from interview to ended on the last
\* question, after a failed attempt at it
C22_Witness ==
    /\ stage = "ended"
    /\ turn.op = "answer"
    /\ current_question = NumQuestions - 1
    /\ current_question_retries = 1

\* C23: while the stage is completed or ended no turn and no re-render
\* changes stage, current_question, current_question_retries, the
\* questions or chat_history, except the restart, after which the session
\* is the initial one: stage consent, no questions, empty log, index 0,
\* retries 0, empty profile.
C23_TerminalUntilRestart ==
    [][(stage \in Terminal) =>
          IF turn'.op = "restart"
          THEN /\ stage' = "consent"
               /\ questions' = <<>>
               /\ chat_history' = <<>>
               /\ current_question' = 0
               /\ current_question_retries' = 0
               /\ DOMAIN candidate_data' = {}
          ELSE UNCHANGED session
      ]_vars

\* a finished session has been rendered again and is as it was
C23_Witness ==
    /\ stage \in Terminal
    /\ saveCalls >= 2
    /\ turn.op \in {"answer", "end_button"}
    /\ chat_history[Len(chat_history)].type = "bot"
    /\ Len(questions) = NumQuestions

\* the text has a character that is not white space
NonBlank(text) == \E i \in DOMAIN text : text[i] \notin Whitespace

\* the number of digits and plus signs in the text
PhoneCharacters(text) ==
    Cardinality({i \in DOMAIN text : text[i] \in Digits \cup {"+"}})

\* every check of the candidate form passes
FormPasses(f) ==
    /\ \A k \in TextFields : NonBlank(f[k])
    /\ validate_email(f.email)
    /\ PhoneCharacters(f.phone) \in 10..15

FormSubmission == stage = "form" /\ turn'.op = "form"

\* C24: the session enters interview only from form, on a submission whose
\* name, email, phone, position, location and tech stack are non-blank,
\* whose email matches the pattern and whose phone holds 10 to 15 digits
\* and plus signs; a submission that fails a check leaves stage, profile,
\* questions and chat_history unchanged; when interview is entered the 4
\* questions are there.
C24_InterviewOnlyOnValidForm ==
    [][/\ (stage # "interview" /\ stage' = "interview") =>
             /\ FormSubmission
             /\ FormPasses(turn'.form)
             /\ Len(questions') = NumQuestions
             /\ candidate_data'.full_name = strip(turn'.form.full_name)
       /\ (FormSubmission /\ FormPasses(turn'.form)) => stage' = "interview"
       /\ (FormSubmission /\ ~FormPasses(turn'.form)) =>
             UNCHANGED <<stage, candidate_data, questions, chat_history>>
      ]_vars

\* a form with a phone number of 7 digits was turned down
C24_Witness ==
    /\ stage = "form"
    /\ turn.op = "form"
    /\ NonBlank(turn.form.phone)
    /\ PhoneCharacters(turn.form.phone) < 10
    /\ validate_email(turn.form.email)
    /\ questions = <<>>
    /\ DOMAIN candidate_data = {}
    /\ Len(chat_history) = 1

\* C25: nothing is persisted in the stages consent, form and interview
\* (save_candidate_data runs only in stage completed or ended), and in
\* stage consent a decline action is available, which ends the run with
\* nothing persisted.
C25_DeclineAvailableNothingSaved ==
    /\ stage \notin Terminal => saveCalls = 0
    /\ stage = "consent" => "consent_decline" \in consent_buttons

\* the user messages of the written record that were evaluated answers, in
\* the order of their evaluation
EvaluatedMessages ==
    SelectSeq(transcript_chat_history(interview_data(Session)),
              LAMBDA m : m.type = "user" /\ ~WholeTextIsKeyword(m.message))

\* C26: in the persisted transcript every user message that was an
\* evaluated answer carries the classification evaluate_answer returned
\* for it and the question it answered; neither is left empty.
C26_TranscriptCarriesEvaluation ==
    Persisted =>
        /\ Len(EvaluatedMessages) = Len(evals)
        /\ \A k \in DOMAIN EvaluatedMessages :
              /\ EvaluatedMessages[k].evaluation = evals[k].result.type
              /\ EvaluatedMessages[k].question_asked # None

\* both calls have returned
AllReturned ==
    /\ DOMAIN saving = Savers
    /\ \A i \in Savers : saving[i].pc \in {"done", "failed"}

CompletedSavers == {i \in Savers : saving[i].status = "completed"}

\* C27: when two sessions execute the aggregate update in any
\* interleaving, the final total_interviews is the initial value plus 2
\* and completed_interviews is the initial value plus the number of those
\* sessions whose status is completed.
C27_NoLostUpdate ==
    AllReturned =>
        /\ analytics_file \notin {NoFile, Truncated}
        /\ analytics_file.total_interviews =
               load_analytics(turn.initial).total_interviews + Cardinality(Savers)
        /\ analytics_file.completed_interviews =
               load_analytics(turn.initial).completed_interviews
                   + Cardinality(CompletedSavers)

\* the evaluated answers question q has received in this session
AnswersTo(q) == Cardinality({i \in DOMAIN evals : evals[i].q = q})

\* C28: no question receives more than 2 evaluated answers, so at most 8
\* evaluated answers occur between the entry to interview and completed,
\* whatever the evaluations are.
C28_BoundedInteraction ==
    /\ \A q \in 0..(NumQuestions - 1) : AnswersTo(q) <= RetryLimit
    /\ \A i \in DOMAIN evals : evals[i].q \in 0..(NumQuestions - 1)
    /\ Len(evals) <= RetryLimit * NumQuestions
    /\ \A q \in 0..(NumQuestions - 1) :
          AnswersTo(q) = RetryLimit => current_question > q

\* the longest interview: every question took both of its attempts
C28_Witness ==
    /\ stage = "completed"
    /\ Len(evals) = RetryLimit * NumQuestions
    /\ \A q \in 0..(NumQuestions - 1) : AnswersTo(q) = RetryLimit
    /\ \E i \in DOMAIN evals : evals[i].result.type = "NEEDS_CLARIFICATION"

\* difficulty and text of the questions, without the tags
Content(qs) ==
    [i \in DOMAIN qs |->
        [k \in DOMAIN qs[i] \ {"final_evaluation_type"} |-> qs[i][k]]]

\* question i carries a tag exactly if i < current_question, and the tag
\* is ADEQUATE or FAILED_ATTEMPTS
TagsTrackProgress ==
    \A q \in 0..(Len(questions) - 1) :
        /\ HasKey(questions[q + 1], "final_evaluation_type") <=> q < current_question
        /\ Tag(questions, q) \in {None, "ADEQUATE", "FAILED_ATTEMPTS"}

\* C29: in every reachable state question i carries a
\* final_evaluation_type if and only if i < current_question, and the tag
\* is ADEQUATE or FAILED_ATTEMPTS; once set, a question's tag, difficulty
\* and text do not change until the restart.
C29_TagsTrackProgress ==
    /\ []TagsTrackProgress
    /\ [][(turn'.op # "restart" /\ questions # <<>>) =>
             /\ Content(questions') = Content(questions)
             /\ \A q \in 0..(Len(questions) - 1) :
                   Tag(questions, q) # None
                       => Tag(questions', q) = Tag(questions, q)
         ]_vars

\* one question was answered adequately, the next used up its attempts,
\* and the third is open
C29_Witness ==
    /\ stage = "interview"
    /\ current_question = 2
    /\ Tag(questions, 0) = "ADEQUATE"
    /\ Tag(questions, 1) = "FAILED_ATTEMPTS"
    /\ Tag(questions, 2) = None
    /\ Tag(questions, 3) = None

\* the text is empty or consists of white space only
BlankText(text) == \A i \in DOMAIN text : text[i] \in Whitespace

\* C30: a blank answer submitted in interview changes nothing: stage,
\* current_question, current_question_retries, the question tags and
\* chat_history are unchanged and no evaluation is performed, so blank
\* submissions never use retry budget.
C30_BlankAnswerChangesNothing ==
    [][(AnswerStep /\ BlankText(turn'.text)) =>
          /\ UNCHANGED <<stage, current_question, current_question_retries,
                         questions, chat_history, candidate_data>>
          /\ UNCHANGED <<evals, saveCalls>>
      ]_vars

\* a whitespace-only answer after a failed attempt: the attempt is still
\* the only one, and the log ends with its feedback
C30_Witness ==
    /\ stage = "interview"
    /\ turn.op = "answer"
    /\ BlankText(turn.text) /\ turn.text # <<>>
    /\ current_question_retries = 1
    /\ AnswersTo(current_question) = 1
    /\ chat_history[Len(chat_history)].type = "bot"
    /\ CountOf(chat_history, "user") = Len(evals)

\* the calls of the list that returned True
SuccessfulCalls == {i \in DOMAIN saving : saving[i].pc = "done"}

SuccessfulCompleted == {i \in SuccessfulCalls : saving[i].status = "completed"}

\* the aggregate file records exactly the successful calls
RecordsSuccessfulCalls ==
    IF SuccessfulCalls = {}
    THEN analytics_file = NoFile
    ELSE /\ analytics_file \notin {NoFile, Truncated}
         /\ analytics_file.total_interviews = Cardinality(SuccessfulCalls)
         /\ analytics_file.completed_interviews = Cardinality(SuccessfulCompleted)
         /\ analytics_file.completed_interviews <= analytics_file.total_interviews
         \* the rate, in hundredths rounded down, is completed / total
         /\ analytics_file.average_completion_rate * analytics_file.total_interviews
                <= 100 * analytics_file.completed_interviews
         /\ 100 * analytics_file.completed_interviews
                < (analytics_file.average_completion_rate + 1)
                      * analytics_file.total_interviews

\* C31: after any sequence of save_candidate_data calls executed one at a
\* time from an empty aggregate, total_interviews is the number of
\* successful calls, completed_interviews is the number of those whose
\* status was completed, completed_interviews <= total_interviews, and
\* average_completion_rate is completed_interviews / total_interviews; no
\* call of the sequence finds the file half-written.
C31_SequentialAggregate ==
    /\ (\A i \in DOMAIN saving : Returned(saving[i])) => RecordsSuccessfulCalls
    /\ \A i \in DOMAIN saving : saving[i].pc = "read" => analytics_file # Truncated

\* three successful calls, two of them completed, and one that raised
C31_Witness ==
    /\ \A i \in DOMAIN saving : Returned(saving[i])
    /\ Cardinality(SuccessfulCalls) = 3
    /\ Cardinality(SuccessfulCompleted) = 2
    /\ \E i \in DOMAIN saving : saving[i].pc = "failed"
    /\ analytics_file = Analytics(3, 2)
    /\ analytics_file.average_completion_rate = 66

====
